---- MODULE Spec2Model ----
(***************************************************************************)
(* Model of the ffmodel backend: the Monte Carlo projection engine         *)
(* (monte_carlo.py), its Redis-backed result cache (services.py            *)
(* CacheService), request validation (schemas.py SimulationRequest) and    *)
(* the /api/simulate handler (main.py simulate_draft).                     *)
(*                                                                         *)
(* Numbers: points, standard deviations and costs are fixed-point          *)
(* integers in hundredths (2000 is 20.00); percentages are in tenths of a  *)
(* percent (163 is 16.3).  Arithmetic is exact, so round(x, 2) and         *)
(* round(x, 1) are roundings of exact quotients (half to even).            *)
(***************************************************************************)
EXTENDS Integers, Sequences, FiniteSets, TLC

VARIABLES
    redisUp,        \* the Redis server is reachable right now
    cacheInstance,  \* services.cache: "unbuilt", "ok" or "failed" (constructor raised)
    store,          \* the Redis database: key -> [value, expires]
    now,            \* wall clock, seconds
    rngState,       \* numpy's global random state: [key, pos]
    db,             \* the players table, in query order
    csv,            \* data/players.csv: "missing", "valid" or "invalid"
    calls,          \* number of calls made so far
    last,           \* the latest call: its arguments and what it returned
    missLog,        \* the cache misses so far: engine, arguments, key and results
    remissed,       \* some engine has missed twice on the same arguments
    keyLog,         \* direct generate_cache_key calls so far: arguments and key
    threads,        \* the threads running a call step by step: position and locals
    guard,          \* PlayerService._loading_lock: the attribute and the locks held
    loads,          \* the load_players_from_csv runs started so far
    rate_limiter,   \* security.rate_limiter: clients, max_requests, window_seconds
    history         \* the requests the rate limit middleware has handled, in order

vars == <<redisUp, cacheInstance, store, now, rngState, db, csv, calls, last, missLog, remissed,
          keyLog, threads, guard, loads, rate_limiter, history>>

threadVars == <<threads, guard, loads>>

limiterVars == <<rate_limiter, history>>

----------------------------------------------------------------------------
(* Bounds of the model *)

MaxCalls == 3
MaxTime == 400
TickStep == 200

(* Program constants *)

CACHE_TTL == 300
SEED == 42
MIN_SIMULATIONS == 100
MAX_SIMULATIONS == 10000
MIN_BUDGET == 50
MAX_BUDGET == 1000

----------------------------------------------------------------------------
(* Players (models.Player rows) *)

Player(id, name, proj, sd, cost) ==
    [player_id |-> id, name |-> name, points_proj |-> proj, std_dev |-> sd, adp_cost |-> cost]

P1 == Player("p1", "Ace", 2000, 50, 1000)
P2 == Player("p2", "Bo", 1000, 0, 500)
P1cost == Player("p1", "Ace", 2000, 50, 1200)

PlayerLists == { <<>>, <<P1, P2>>, <<P2, P1>> }

CsvPlayers == <<P1, P2>>

\* Python's string order on the player ids used here
IdRank(id) == CASE id = "p1" -> 1 [] id = "p2" -> 2 [] OTHER -> 3

----------------------------------------------------------------------------
(* schemas.ScoringFormat: member name -> value *)

ScoringFormatValue(member) ==
    CASE member = "STANDARD" -> "standard"
      [] member = "PPR" -> "ppr"
      [] member = "HALF_PPR" -> "half_ppr"
      [] OTHER -> member

\* str-Enum equality: a member equals the plain string of its value
StrEq(a, b) == ScoringFormatValue(a) = ScoringFormatValue(b)

(* adp_overrides: None, or a dict given as its items in insertion order *)
NoOverrides == [isNone |-> TRUE, items |-> <<>>]
Overrides(items) == [isNone |-> FALSE, items |-> items]

RawRequest(b, f, n, o) ==
    [budget |-> b, scoring_format |-> f, num_simulations |-> n, adp_overrides |-> o]

\* the constraints without the lower bound of num_simulations
SimulationRequestValid_NoMinimum(raw) ==
    /\ raw.budget >= MIN_BUDGET
    /\ raw.budget <= MAX_BUDGET
    /\ raw.num_simulations <= MAX_SIMULATIONS

\* schemas.SimulationRequest field constraints (ge / le)
SimulationRequestValid(raw) ==
    /\ raw.budget >= MIN_BUDGET
    /\ raw.budget <= MAX_BUDGET
    /\ raw.num_simulations >= MIN_SIMULATIONS
    /\ raw.num_simulations <= MAX_SIMULATIONS

RawRequests ==
    { RawRequest(200, "STANDARD", 100, NoOverrides),
      RawRequest(200, "STANDARD", 100, Overrides(<< <<"p1", 700>> >>)),
      RawRequest(200, "STANDARD", 99, NoOverrides),
      RawRequest(200, "STANDARD", 10001, NoOverrides),
      RawRequest(49, "STANDARD", 100, NoOverrides),
      RawRequest(1001, "STANDARD", 100, NoOverrides) }

\* the SimulationRequest objects that can exist: construction validates
Requests == { r \in RawRequests : SimulationRequestValid(r) }

----------------------------------------------------------------------------
(* generate_cache_key *)

RECURSIVE InsertByKey(_, _)
InsertByKey(item, sorted) ==
    IF sorted = <<>> THEN <<item>>
    ELSE IF IdRank(item[1]) < IdRank(Head(sorted)[1])
         THEN <<item>> \o sorted
         ELSE <<Head(sorted)>> \o InsertByKey(item, Tail(sorted))

RECURSIVE SortItemsByKey(_)
SortItemsByKey(items) ==
    IF items = <<>> THEN <<>>
    ELSE InsertByKey(Head(items), SortItemsByKey(Tail(items)))

\* the settings without the overrides
SettingsDict_NoOverrides(settings) ==
    [budget |-> settings.budget,
     scoring_format |-> settings.scoring_format,
     num_simulations |-> settings.num_simulations,
     adp_overrides |-> NoOverrides]

\* settings.dict(): the four fields, the enum still a member
SettingsDict(settings) ==
    [budget |-> settings.budget,
     scoring_format |-> settings.scoring_format,
     num_simulations |-> settings.num_simulations,
     adp_overrides |-> settings.adp_overrides]

\* the player tuples without the cost
PlayerData_NoCost(players) ==
    [i \in 1..Len(players) |->
        <<players[i].player_id, players[i].points_proj, players[i].std_dev>>]

\* the player tuples sorted by player id
PlayerData_Sorted(players) ==
    SortItemsByKey([i \in 1..Len(players) |->
        <<players[i].player_id, players[i].points_proj, players[i].std_dev, players[i].adp_cost>>])

\* the player tuples of the key, in the given order
PlayerData(players) ==
    [i \in 1..Len(players) |->
        <<players[i].player_id, players[i].points_proj, players[i].std_dev, players[i].adp_cost>>]

\* json.dumps(key_data, sort_keys=True): the text, as its token structure.
\* Dict keys come out sorted, the enum as its value, None as null.
KeyString(players, settings) ==
    LET d == SettingsDict(settings)
    IN  << "players", PlayerData(players),
           "settings",
           << "adp_overrides",
              IF d.adp_overrides.isNone THEN <<"null">>
              ELSE <<"dict", SortItemsByKey(d.adp_overrides.items)>>,
              "budget", d.budget,
              "num_simulations", d.num_simulations,
              "scoring_format", ScoringFormatValue(d.scoring_format) >> >>

\* hashlib.md5(...).hexdigest(): taken to be collision-free on the texts of the model
Md5Hex(text) == <<"md5", text>>

generate_cache_key(players, settings) == Md5Hex(KeyString(players, settings))

----------------------------------------------------------------------------
(* numpy's global random state and np.random.normal *)

\* standard normal variates, in tenths: the values the generator can return
ZTable == <<-11, -10, -5, 0, 5, 10, 11>>

\* the variate at position pos of the stream of seed key
Gauss(key, pos) ==
    ZTable[((key * 5 + pos * 3 + (pos \div 7) + 2 * (pos \div 49)) % 7) + 1]

\* np.random.seed(s): the stream of s, from its start
Seed(s) == [key |-> s, pos |-> 0]

\* no reseeding: the stream goes on from where it is
SeedOnMiss_Continue(state) == state

\* the state np.random.seed(42) leaves on a miss, whatever it was before
SeedOnMiss(state) == Seed(SEED)

\* np.random.normal(loc, scale, n) from state rng: n draws loc + scale * z
Normal(rng, loc, scale, n) ==
    [i \in 1..n |-> loc + (scale * Gauss(rng.key, rng.pos + i - 1)) \div 10]

Advance(rng, n) == [rng EXCEPT !.pos = @ + n]

----------------------------------------------------------------------------
(* Statistics of one player's trials *)

\* round(num / den, k) on exact values, ties to even; den > 0
RoundDiv(num, den) ==
    LET q == num \div den
        r == num % den
    IN  IF 2 * r < den THEN q
        ELSE IF 2 * r > den THEN q + 1
        ELSE IF q % 2 = 0 THEN q ELSE q + 1

RECURSIVE SumRange(_, _, _)
\* xs[lo] + ... + xs[hi], added up by halves; the values are exact integers, so
\* the order of the additions does not change the sum
SumRange(xs, lo, hi) ==
    IF lo > hi THEN 0
    ELSE IF lo = hi THEN xs[lo]
    ELSE LET mid == (lo + hi) \div 2
         IN  SumRange(xs, lo, mid) + SumRange(xs, mid + 1, hi)

Sum(xs) == SumRange(xs, 1, Len(xs))

\* np.mean(points), rounded to 2 places
Mean2(points) == RoundDiv(Sum(points), Len(points))

\* least s >= lo with x < (2s+1)^2
RECURSIVE HalfRootBound(_, _)
\* some s >= hi with x < (2s+1)^2, found by doubling
HalfRootBound(x, hi) ==
    IF x < (2 * hi + 1) * (2 * hi + 1) THEN hi ELSE HalfRootBound(x, 2 * hi + 1)

RECURSIVE HalfRootBetween(_, _, _)
\* least s in lo..hi with x < (2s+1)^2, when hi is such an s
HalfRootBetween(x, lo, hi) ==
    IF lo = hi THEN lo
    ELSE LET mid == (lo + hi) \div 2
         IN  IF x < (2 * mid + 1) * (2 * mid + 1)
             THEN HalfRootBetween(x, lo, mid)
             ELSE HalfRootBetween(x, mid + 1, hi)

HalfRoot(x, lo) == HalfRootBetween(x, lo, HalfRootBound(x, lo))

\* np.std(points) (population), rounded to 2 places.  With n = Len(points),
\* e the deviations from points[1] and D = n*Sum(e^2) - Sum(e)^2, the standard
\* deviation is sqrt(D)/n, and it rounds to s iff (2s-1)^2 <= 4D/n^2 < (2s+1)^2.
Std2(points) ==
    LET n == Len(points)
        e == [i \in 1..n |-> points[i] - points[1]]
        sq == [i \in 1..n |-> e[i] * e[i]]
        b == Sum(e)
        D == n * Sum(sq) - b * b
        x == (4 * D) \div (n * n)
        s == HalfRoot(x, 0)
        tie == s > 0 /\ (4 * D) % (n * n) = 0 /\ x = (2 * s - 1) * (2 * s - 1)
    IN  IF tie /\ s % 2 = 1 THEN s - 1 ELSE s

\* the share of the trials at or above the threshold
PctAbove_Inclusive(points, threshold) ==
    RoundDiv(1000 * Cardinality({i \in 1..Len(points) : points[i] >= threshold}), Len(points))

\* np.mean(points > threshold) * 100, rounded to 1 place
PctAbove(points, threshold) ==
    RoundDiv(1000 * Cardinality({i \in 1..Len(points) : points[i] > threshold}), Len(points))

\* np.mean(points < threshold) * 100, rounded to 1 place
PctBelow(points, threshold) ==
    RoundDiv(1000 * Cardinality({i \in 1..Len(points) : points[i] < threshold}), Len(points))

\* a result whose thresholds are taken from the sampled mean and std
PlayerResult_SampledThresholds(player, settings, points) ==
    LET mean == Mean2(points)
        std == Std2(points)
    IN  [player_id |-> player.player_id,
         name |-> player.name,
         mean |-> mean,
         std |-> std,
         boom_pct |-> PctAbove(points, mean + std),
         bust_pct |-> PctBelow(points, mean - std)]

\* the SimulationResult of one player from its trials
PlayerResult(player, settings, points) ==
    LET adp_cost ==
            IF /\ ~settings.adp_overrides.isNone
               /\ \E k \in 1..Len(settings.adp_overrides.items) :
                      settings.adp_overrides.items[k][1] = player.player_id
            THEN LET k == CHOOSE k \in 1..Len(settings.adp_overrides.items) :
                              settings.adp_overrides.items[k][1] = player.player_id
                 IN  settings.adp_overrides.items[k][2]
            ELSE player.adp_cost
        boom_threshold == player.points_proj + player.std_dev
        bust_threshold == player.points_proj - player.std_dev
    IN  [player_id |-> player.player_id,
         name |-> player.name,
         mean |-> Mean2(points),
         std |-> Std2(points),
         boom_pct |-> PctAbove(points, boom_threshold),
         bust_pct |-> PctBelow(points, bust_threshold)]

\* an insertion that puts a result before the results of equal mean
RECURSIVE InsertByMean_Unstable(_, _)
InsertByMean_Unstable(r, sorted) ==
    IF sorted = <<>> THEN <<r>>
    ELSE IF Head(sorted).mean > r.mean
         THEN <<Head(sorted)>> \o InsertByMean_Unstable(r, Tail(sorted))
         ELSE <<r>> \o sorted

\* an insertion that drops a result whose mean is already there
RECURSIVE InsertByMean_DropEqual(_, _)
InsertByMean_DropEqual(r, sorted) ==
    IF sorted = <<>> THEN <<r>>
    ELSE IF Head(sorted).mean = r.mean THEN sorted
    ELSE IF Head(sorted).mean > r.mean
         THEN <<Head(sorted)>> \o InsertByMean_DropEqual(r, Tail(sorted))
         ELSE <<r>> \o sorted

\* results.sort(key=lambda x: x.mean, reverse=True): stable, descending
RECURSIVE InsertByMean(_, _)
InsertByMean(r, sorted) ==
    IF sorted = <<>> THEN <<r>>
    ELSE IF Head(sorted).mean >= r.mean
         THEN <<Head(sorted)>> \o InsertByMean(r, Tail(sorted))
         ELSE <<r>> \o sorted

RECURSIVE SortByMean(_, _)
SortByMean(results, done) ==
    IF results = <<>> THEN done
    ELSE SortByMean(Tail(results), InsertByMean(Head(results), done))

----------------------------------------------------------------------------
(* The two engines on a cache miss: the response and the random state left *)

\* run_simulation: one np.random.normal call per player, in input order
RECURSIVE SequentialResults(_, _, _, _)
SequentialResults(players, settings, rng, i) ==
    IF i > Len(players) THEN <<>>
    ELSE LET n == settings.num_simulations
             points == Normal(rng, players[i].points_proj, players[i].std_dev, n)
         IN  <<PlayerResult(players[i], settings, points)>>
                 \o SequentialResults(players, settings, Advance(rng, n), i + 1)

\* a matrix filled column by column: trial t of player i is draw (t-1)*k + i
VectorizedResults_ColumnMajor(players, settings, rng) ==
    LET n == settings.num_simulations
        k == Len(players)
        random_samples ==
            [i \in 1..k |->
                [t \in 1..n |->
                    players[i].points_proj
                      + (players[i].std_dev * Gauss(rng.key, rng.pos + (t - 1) * k + i - 1))
                          \div 10]]
    IN  [i \in 1..k |-> PlayerResult(players[i], settings, random_samples[i])]

\* run_optimized_simulation: one call fills the players x simulations matrix
\* row by row; row i is reduced to the statistics of player i
VectorizedResults(players, settings, rng) ==
    LET n == settings.num_simulations
        random_samples ==
            [i \in 1..Len(players) |->
                Normal(Advance(rng, (i - 1) * n), players[i].points_proj, players[i].std_dev, n)]
    IN  [i \in 1..Len(players) |-> PlayerResult(players[i], settings, random_samples[i])]

Metadata(players, settings, cache_key) ==
    [num_simulations |-> settings.num_simulations,
     num_players |-> Len(players),
     scoring_format |-> settings.scoring_format,
     budget |-> settings.budget,
     cache_key |-> cache_key]

\* the metadata of the vectorized engine without its flag
OptimizedMetadata_Unflagged(players, settings, cache_key) ==
    Metadata(players, settings, cache_key)

OptimizedMetadata(players, settings, cache_key) ==
    [num_simulations |-> settings.num_simulations,
     num_players |-> Len(players),
     scoring_format |-> settings.scoring_format,
     budget |-> settings.budget,
     cache_key |-> cache_key,
     optimized |-> TRUE]

Engines == {"run_simulation", "run_optimized_simulation"}

\* the unsorted results either engine computes on a miss, from random state rng
ComputeResults(op, players, settings, rng) ==
    IF op = "run_simulation"
    THEN SequentialResults(players, settings, rng, 1)
    ELSE VectorizedResults(players, settings, rng)

\* ComputeResults from the state np.random.seed(42) leaves, computed once
SeededResults ==
    [op \in Engines, players \in PlayerLists, settings \in Requests |->
        ComputeResults(op, players, settings, Seed(SEED))]

\* more players: two with no variability and the same projection, one with
\* variability and that projection, one projected at zero
T1 == Player("t1", "Cy", 1500, 0, 300)
T2 == Player("t2", "Di", 1500, 0, 400)
P3 == Player("p3", "Eve", 1500, 50, 200)
Z0 == Player("z0", "Zed", 0, 0, 100)

\* player lists the engines are called with directly
DirectPlayerLists ==
    { <<>>, <<T1, P1, T2>>, <<T2, P2, T1>>, <<P2, P1, T1>>, <<T1, P3>>, <<P3, P1>>, <<Z0, T1>> }

\* SimulationRequest objects the engines are called with directly
DirectRequests ==
    { RawRequest(200, "STANDARD", 100, NoOverrides),
      RawRequest(300, "PPR", 101, NoOverrides) }

\* ComputeResults from the state np.random.seed(42) leaves, for the direct calls
DirectResults ==
    [op \in Engines, players \in DirectPlayerLists, settings \in DirectRequests |->
        ComputeResults(op, players, settings, Seed(SEED))]

Results(op, players, settings, rng) ==
    IF rng = Seed(SEED) /\ <<op, players, settings>> \in DOMAIN SeededResults
    THEN SeededResults[op, players, settings]
    ELSE IF rng = Seed(SEED) /\ <<op, players, settings>> \in DOMAIN DirectResults
    THEN DirectResults[op, players, settings]
    ELSE ComputeResults(op, players, settings, rng)

\* the response either engine assembles on a miss, from random state rng
FreshResponse(op, players, settings, cache_key, rng) ==
    [results |-> SortByMean(Results(op, players, settings, rng), <<>>),
     metadata |-> IF op = "run_simulation"
                  THEN Metadata(players, settings, cache_key)
                  ELSE OptimizedMetadata(players, settings, cache_key)]

\* the trials either engine draws for player i on a miss: the sequential one
\* by its i-th call, the vectorized one as row i of the matrix
DrawTrials(players, settings, i) ==
    Normal(Advance(Seed(SEED), (i - 1) * settings.num_simulations),
           players[i].points_proj, players[i].std_dev, settings.num_simulations)

\* DrawTrials for the direct calls, computed once
DirectTrials ==
    [players \in DirectPlayerLists, settings \in DirectRequests |->
        [i \in 1..Len(players) |-> DrawTrials(players, settings, i)]]

Trials(players, settings, i) ==
    IF <<players, settings>> \in DOMAIN DirectTrials
    THEN DirectTrials[players, settings][i]
    ELSE DrawTrials(players, settings, i)

\* trials drawn by a miss
TrialsDrawn(players, settings) == Len(players) * settings.num_simulations

----------------------------------------------------------------------------
(* CacheService *)

\* json.dumps(value): the enum member is written as its value
JsonDumps(response) ==
    [json |-> [results |-> response.results,
               metadata |-> [response.metadata EXCEPT
                                !.scoring_format = ScoringFormatValue(@)]]]

\* json.loads(text)
JsonLoads(text) == text.json

\* Python == on two responses
ResponseEq(a, b) ==
    /\ a.results = b.results
    /\ DOMAIN a.metadata = DOMAIN b.metadata
    /\ \A f \in DOMAIN a.metadata :
          IF f = "scoring_format" THEN StrEq(a.metadata[f], b.metadata[f])
          ELSE a.metadata[f] = b.metadata[f]

Live(db0, key, t) == key \in DOMAIN db0 /\ db0[key].expires > t

\* a get that finds nothing, whatever is stored
CacheGet_Absent(db0, key, t, up) == [value |-> <<>>, raised |-> FALSE]

\* CacheService.get: value is <<v>>, or <<>> for None.  A Redis error is
\* caught and logged, and None is returned: get never raises.
CacheGet(db0, key, t, up) ==
    IF ~up THEN [value |-> <<>>, raised |-> FALSE]
    ELSE IF Live(db0, key, t) THEN [value |-> <<JsonLoads(db0[key].value)>>, raised |-> FALSE]
    ELSE [value |-> <<>>, raised |-> FALSE]

\* a set that writes with the 60 second time-to-live of the health check
CacheSet_Ttl60(db0, key, value, ttl, t, up) ==
    IF ~up THEN [db |-> db0, raised |-> FALSE]
    ELSE [db |-> [k \in DOMAIN db0 \cup {key} |->
                    IF k = key THEN [value |-> JsonDumps(value), expires |-> t + 60]
                    ELSE db0[k]],
          raised |-> FALSE]

\* a set that lets the Redis error out
CacheSet_Raises(db0, key, value, ttl, t, up) ==
    IF ~up THEN [db |-> db0, raised |-> TRUE]
    ELSE [db |-> [k \in DOMAIN db0 \cup {key} |->
                    IF k = key THEN [value |-> JsonDumps(value), expires |-> t + ttl]
                    ELSE db0[k]],
          raised |-> FALSE]

\* CacheService.set: the database after it.  A Redis error is caught and
\* logged, and nothing is written: set never raises.
CacheSet(db0, key, value, ttl, t, up) ==
    IF ~up THEN [db |-> db0, raised |-> FALSE]
    ELSE [db |-> [k \in DOMAIN db0 \cup {key} |->
                    IF k = key THEN [value |-> JsonDumps(value), expires |-> t + ttl]
                    ELSE db0[k]],
          raised |-> FALSE]

\* Redis dropping what has expired by time t
Unexpired(db0, t) == [k \in {k \in DOMAIN db0 : db0[k].expires > t} |-> db0[k]]

EmptyStore == [k \in {} |-> 0]

----------------------------------------------------------------------------
(* State *)

NoCall ==
    [op |-> "none", players |-> <<>>, settings |-> <<>>, key |-> <<>>,
     status |-> "none", outcome |-> "none", response |-> <<>>,
     getOk |-> FALSE, setOk |-> FALSE, drawn |-> 0, seeded |-> FALSE]

NumThreads == 2

Threads == 1..NumThreads

\* a thread that is in no call
IdleThread ==
    [pc |-> "idle", op |-> "none", players |-> <<>>, settings |-> <<>>, key |-> <<>>,
     i |-> 0, results |-> <<>>, outcome |-> "none", response |-> <<>>]

\* PlayerService has no _loading_lock attribute yet and no lock is held
NoGuard == [attr |-> 0, made |-> 0, held |-> {}]

\* no thread is in a call
ThreadsIdle ==
    /\ threads = [t \in Threads |-> IdleThread]
    /\ guard = NoGuard
    /\ loads = {}

----------------------------------------------------------------------------
(* security.py: RateLimiter.  Timestamps are whole ticks of the clock and
   window_seconds is a whole number of ticks. *)

\* RATE_LIMIT_REQUESTS and RATE_LIMIT_WINDOW when the environment sets neither
RATE_LIMIT_REQUESTS == 100
RATE_LIMIT_WINDOW == 60

\* defaultdict(lambda: deque()) with no key yet
NoClients == [id \in {} |-> <<>>]

\* RateLimiter.__init__
RateLimiter(max_requests, window_seconds) ==
    [clients |-> NoClients, max_requests |-> max_requests, window_seconds |-> window_seconds]

\* self.clients[client_id]: a key that is missing reads as an empty deque
ClientRequests(limiter, client_id) ==
    IF client_id \in DOMAIN limiter.clients THEN limiter.clients[client_id] ELSE <<>>

\* self.clients after the deque of client_id has become client_requests; reading
\* the key has inserted it
WithClient(limiter, client_id, client_requests) ==
    [limiter EXCEPT !.clients =
        [id \in DOMAIN limiter.clients \cup {client_id} |->
            IF id = client_id THEN client_requests ELSE limiter.clients[id]]]

RECURSIVE PopOld(_, _)
\* the while loop: popleft while the oldest timestamp is before the cutoff
PopOld(client_requests, cutoff) ==
    IF client_requests # <<>> /\ Head(client_requests) < cutoff
    THEN PopOld(Tail(client_requests), cutoff)
    ELSE client_requests

\* is_allowed, had it appended the timestamp before looking at the limit
IsAllowed_RecordRefused(limiter, client_id, t) ==
    LET client_requests == PopOld(ClientRequests(limiter, client_id), t - limiter.window_seconds)
    IN  [allowed |-> Len(client_requests) < limiter.max_requests,
         limiter |-> WithClient(limiter, client_id, Append(client_requests, t))]

\* RateLimiter.is_allowed at time t: what it returns and the limiter it leaves
IsAllowed(limiter, client_id, t) ==
    LET client_requests == PopOld(ClientRequests(limiter, client_id), t - limiter.window_seconds)
    IN  IF Len(client_requests) >= limiter.max_requests
        THEN [allowed |-> FALSE, limiter |-> WithClient(limiter, client_id, client_requests)]
        ELSE [allowed |-> TRUE,
              limiter |-> WithClient(limiter, client_id, Append(client_requests, t))]

\* hashlib.sha256(...).hexdigest()[:16]: taken to be collision-free on the
\* addresses of the model
Sha256Hex16(text) == <<"sha256", text>>

\* request.client.host of the requests of the model; "none" is a request
\* without a client
RequestClients == {"10.0.0.1", "none"}

\* RateLimiter.get_client_id
GetClientId(client) == Sha256Hex16(IF client = "none" THEN "unknown" ELSE client)

\* the module has been imported with the default limits and has seen no request
LimiterIdle ==
    /\ rate_limiter = RateLimiter(RATE_LIMIT_REQUESTS, RATE_LIMIT_WINDOW)
    /\ history = <<>>

\* numpy seeds its global state from the operating system when it is imported
InitialSeeds == {1}

\* the players table and the CSV file when the process starts
StartTables ==
    { << <<>>, "missing" >>, << <<>>, "valid" >>, << <<>>, "invalid" >> }

Init ==
    /\ redisUp \in BOOLEAN
    /\ cacheInstance = "unbuilt"
    /\ store = EmptyStore
    /\ now = 0
    /\ rngState \in {Seed(k) : k \in InitialSeeds}
    /\ \E start \in StartTables : db = start[1] /\ csv = start[2]
    /\ calls = 0
    /\ last = NoCall
    /\ missLog = {}
    /\ remissed = FALSE
    /\ keyLog = {}
    /\ ThreadsIdle
    /\ LimiterIdle

----------------------------------------------------------------------------
(* Environment *)

\* the Redis server goes away or comes back
RedisFlip ==
    /\ redisUp' = ~redisUp
    /\ UNCHANGED <<cacheInstance, store, now, rngState, db, csv, calls, last, missLog, remissed, keyLog, threadVars, limiterVars>>

\* time passes; Redis drops the entries whose time-to-live is over
Tick ==
    /\ now + TickStep <= MaxTime
    /\ now' = now + TickStep
    /\ store' = Unexpired(store, now')
    /\ UNCHANGED <<redisUp, cacheInstance, rngState, db, csv, calls, last, missLog, remissed, keyLog, threadVars, limiterVars>>

----------------------------------------------------------------------------
(* services.py: cache = CacheService() *)

\* the constructor pings Redis and re-raises a failure, so the import of
\* services (and of monte_carlo and main, which import it) fails with it
CacheServiceInit ==
    /\ cacheInstance = "unbuilt"
    /\ cacheInstance' = IF redisUp THEN "ok" ELSE "failed"
    /\ UNCHANGED <<redisUp, store, now, rngState, db, csv, calls, last, missLog, remissed, keyLog, threadVars, limiterVars>>

\* cache.clear(): flushdb, a failure is logged
CacheClear ==
    /\ cacheInstance = "ok"
    /\ store' = IF redisUp THEN EmptyStore ELSE store
    /\ UNCHANGED <<redisUp, cacheInstance, now, rngState, db, csv, calls, last, missLog, remissed, keyLog, threadVars, limiterVars>>

----------------------------------------------------------------------------
(* monte_carlo.py: the body shared by run_simulation and run_optimized_simulation *)

\* status is what the caller sees when the engine returns, failure when it raises.
\* "if cached_result:" is the test for a hit: a stored response is a dict with
\* two keys, which Python takes as true.
EngineCall(op, players, settings, status, failure) ==
    LET cache_key == generate_cache_key(players, settings)
        got == CacheGet(store, cache_key, now, redisUp)
        call == [op |-> op, players |-> players, settings |-> settings,
                 key |-> cache_key, status |-> status, outcome |-> "none",
                 response |-> <<>>, getOk |-> redisUp, setOk |-> FALSE,
                 drawn |-> 0, seeded |-> FALSE]
    IN  IF got.raised
        THEN /\ last' = [call EXCEPT !.status = failure]
             /\ UNCHANGED <<redisUp, store, rngState, missLog, remissed, limiterVars>>
        ELSE IF got.value # <<>>
        THEN /\ last' = [call EXCEPT !.outcome = "hit", !.response = got.value]
             /\ UNCHANGED <<redisUp, store, rngState, missLog, remissed, limiterVars>>
        ELSE LET rng == SeedOnMiss(rngState)
             IN  \E upAtSet \in BOOLEAN,
                    response \in {FreshResponse(op, players, settings, cache_key, rng)} :
                 LET put == CacheSet(store, cache_key, response, CACHE_TTL, now, upAtSet)
                 IN  /\ redisUp' = upAtSet
                     /\ rngState' = Advance(rng, TrialsDrawn(players, settings))
                     /\ store' = put.db
                     /\ last' = IF put.raised
                                THEN [call EXCEPT !.status = failure, !.outcome = "miss",
                                                  !.drawn = TrialsDrawn(players, settings),
                                                  !.seeded = TRUE]
                                ELSE [call EXCEPT !.outcome = "miss",
                                                  !.response = <<response>>,
                                                  !.setOk = upAtSet,
                                                  !.drawn = TrialsDrawn(players, settings),
                                                  !.seeded = TRUE]
                     /\ missLog' = missLog \cup
                                      {[op |-> op, players |-> players, settings |-> settings,
                                        key |-> cache_key, results |-> response.results]}
                     /\ remissed' = (remissed \/ \E m \in missLog :
                                        /\ m.op = op
                                        /\ m.players = players
                                        /\ m.settings = settings)

\* the arguments the engines are called with: any player list with a request
\* without overrides, and the two-player list with overrides too
EngineInputs ==
    { input \in PlayerLists \X Requests :
        input[2].adp_overrides.isNone \/ input[1] = <<P1, P2>> }

RunSimulation ==
    /\ cacheInstance = "ok"
    /\ calls < MaxCalls
    /\ calls' = calls + 1
    /\ \E input \in EngineInputs :
          EngineCall("run_simulation", input[1], input[2], "returned", "raised")
    /\ UNCHANGED <<cacheInstance, now, db, csv, keyLog, threadVars, limiterVars>>

RunOptimizedSimulation ==
    /\ cacheInstance = "ok"
    /\ calls < MaxCalls
    /\ calls' = calls + 1
    /\ \E input \in EngineInputs :
          EngineCall("run_optimized_simulation", input[1], input[2], "returned", "raised")
    /\ UNCHANGED <<cacheInstance, now, db, csv, keyLog, threadVars, limiterVars>>

----------------------------------------------------------------------------
(* main.py: POST /api/simulate *)

Failed(raw, status) ==
    [NoCall EXCEPT !.op = "simulate_draft", !.settings = raw, !.status = status]

\* PlayerService.ensure_players_loaded, then get_all_players: the table after
\* it, and whether it raised (the CSV is loaded only into an empty table)
EnsurePlayersLoaded(table, file) ==
    IF Len(table) = 0 /\ file = "valid" THEN [table |-> CsvPlayers, raised |-> FALSE]
    ELSE IF Len(table) = 0 /\ file = "invalid" THEN [table |-> table, raised |-> TRUE]
    ELSE [table |-> table, raised |-> FALSE]

SimulateDraft ==
    /\ cacheInstance = "ok"
    /\ calls < MaxCalls
    /\ calls' = calls + 1
    /\ \E raw \in RawRequests :
          IF ~SimulationRequestValid(raw)
          THEN /\ last' = Failed(raw, "http422")
               /\ UNCHANGED <<redisUp, store, rngState, missLog, remissed, db, limiterVars>>
          ELSE LET loaded == EnsurePlayersLoaded(db, csv)
               IN  /\ db' = loaded.table
                   /\ IF loaded.raised
                      THEN /\ last' = Failed(raw, "http500_load")
                           /\ UNCHANGED <<redisUp, store, rngState, missLog, remissed, limiterVars>>
                      ELSE IF Len(loaded.table) = 0
                      THEN /\ last' = Failed(raw, "http400")
                           /\ UNCHANGED <<redisUp, store, rngState, missLog, remissed, limiterVars>>
                      ELSE EngineCall("run_optimized_simulation", loaded.table, raw, "http200", "http500")
    /\ UNCHANGED <<cacheInstance, now, csv, keyLog, threadVars, limiterVars>>

\* a request when the import of main failed: there is no application to serve it
RequestWithoutService ==
    /\ cacheInstance = "failed"
    /\ calls < MaxCalls
    /\ calls' = calls + 1
    /\ \E raw \in RawRequests : last' = Failed(raw, "no_service")
    /\ UNCHANGED <<redisUp, cacheInstance, store, now, rngState, db, csv, missLog, remissed, keyLog, threadVars, limiterVars>>

----------------------------------------------------------------------------

Next ==
    \/ RedisFlip
    \/ Tick
    \/ CacheServiceInit
    \/ CacheClear
    \/ RunSimulation
    \/ RunOptimizedSimulation
    \/ SimulateDraft
    \/ RequestWithoutService

Spec == Init /\ [][Next]_vars

----------------------------------------------------------------------------
(* generate_cache_key on its own: arguments drawn from a wider set *)

MaxKeys == 2

P2cost == Player("p2", "Bo", 1000, 0, 800)

KeyPlayerLists ==
    {<<>>}
    \cup { <<p>> : p \in {P1, P1cost, P2, P2cost} }
    \cup { <<p, q>> : p \in {P1, P1cost}, q \in {P2, P2cost} }
    \cup { <<q, p>> : p \in {P1, P1cost}, q \in {P2, P2cost} }

KeyRequests ==
    { RawRequest(200, "STANDARD", 100, NoOverrides),
      RawRequest(200, "STANDARD", 100, Overrides(<< <<"p1", 700>> >>)),
      RawRequest(200, "STANDARD", 100, Overrides(<< <<"p1", 700>>, <<"p2", 300>> >>)),
      RawRequest(200, "STANDARD", 100, Overrides(<< <<"p2", 300>>, <<"p1", 700>> >>)),
      RawRequest(300, "PPR", 101, NoOverrides) }

KeyInit ==
    /\ redisUp = TRUE
    /\ cacheInstance = "unbuilt"
    /\ store = EmptyStore
    /\ now = 0
    /\ rngState = Seed(1)
    /\ db = <<>>
    /\ csv = "missing"
    /\ calls = 0
    /\ last = NoCall
    /\ missLog = {}
    /\ remissed = FALSE
    /\ keyLog = {}
    /\ ThreadsIdle
    /\ LimiterIdle

GenerateCacheKey ==
    /\ Cardinality(keyLog) < MaxKeys
    /\ \E players \in KeyPlayerLists, settings \in KeyRequests :
          keyLog' = keyLog \cup
              {[players |-> players, settings |-> settings,
                key |-> generate_cache_key(players, settings)]}
    /\ UNCHANGED <<redisUp, cacheInstance, store, now, rngState, db, csv, calls, last,
                   missLog, remissed, threadVars, limiterVars>>

KeyNext == GenerateCacheKey

KeySpec == KeyInit /\ [][KeyNext]_vars

----------------------------------------------------------------------------
(* The two engines called directly, on a wider set of arguments *)

MaxDirectCalls == 2

EngineInit ==
    /\ redisUp = TRUE
    /\ cacheInstance = "ok"
    /\ store = EmptyStore
    /\ now = 0
    /\ rngState = Seed(1)
    /\ db = <<>>
    /\ csv = "missing"
    /\ calls = 0
    /\ last = NoCall
    /\ missLog = {}
    /\ remissed = FALSE
    /\ keyLog = {}
    /\ ThreadsIdle
    /\ LimiterIdle

RunSimulationDirect ==
    /\ cacheInstance = "ok"
    /\ calls < MaxDirectCalls
    /\ calls' = calls + 1
    /\ \E players \in DirectPlayerLists, settings \in DirectRequests :
          EngineCall("run_simulation", players, settings, "returned", "raised")
    /\ UNCHANGED <<cacheInstance, now, db, csv, keyLog, threadVars, limiterVars>>

RunOptimizedSimulationDirect ==
    /\ cacheInstance = "ok"
    /\ calls < MaxDirectCalls
    /\ calls' = calls + 1
    /\ \E players \in DirectPlayerLists, settings \in DirectRequests :
          EngineCall("run_optimized_simulation", players, settings, "returned", "raised")
    /\ UNCHANGED <<cacheInstance, now, db, csv, keyLog, threadVars, limiterVars>>

EngineNext ==
    \/ RunSimulationDirect
    \/ RunOptimizedSimulationDirect

EngineSpec == EngineInit /\ [][EngineNext]_vars

----------------------------------------------------------------------------
(* The engines called from several threads: the steps of one call.  The cache
   read, np.random.seed, each np.random.normal call and the cache write are
   atomic; a thread switch can come between any two of them. *)

ThreadPlayerLists == { <<P1, P2>>, <<P3, P1>> }

ThreadRequests == { RawRequest(200, "STANDARD", 100, NoOverrides) }

ThreadInit ==
    /\ redisUp = TRUE
    /\ cacheInstance = "ok"
    /\ store = EmptyStore
    /\ now = 0
    /\ rngState = Seed(1)
    /\ db = <<>>
    /\ csv = "missing"
    /\ calls = 0
    /\ last = NoCall
    /\ missLog = {}
    /\ remissed = FALSE
    /\ keyLog = {}
    /\ ThreadsIdle
    /\ LimiterIdle

\* the thread enters run_simulation or run_optimized_simulation: the key and cache.get
CallGet(t) ==
    /\ threads[t].pc = "idle"
    /\ \E op \in Engines, players \in ThreadPlayerLists, settings \in ThreadRequests :
          LET cache_key == generate_cache_key(players, settings)
              got == CacheGet(store, cache_key, now, redisUp)
              call == [IdleThread EXCEPT !.op = op, !.players = players,
                                         !.settings = settings, !.key = cache_key]
          IN  threads' = [threads EXCEPT ![t] =
                            IF got.value # <<>>
                            THEN [call EXCEPT !.pc = "done", !.outcome = "hit",
                                              !.response = got.value]
                            ELSE [call EXCEPT !.pc = "seed", !.outcome = "miss"]]
    /\ UNCHANGED <<redisUp, cacheInstance, store, now, rngState, db, csv, calls, last, missLog,
                   remissed, keyLog, guard, loads, limiterVars>>

\* np.random.seed(42)
CallSeed(t) ==
    /\ threads[t].pc = "seed"
    /\ rngState' = SeedOnMiss(rngState)
    /\ threads' = [threads EXCEPT ![t].i = 1,
                                  ![t].pc = IF /\ threads[t].op = "run_simulation"
                                               /\ Len(threads[t].players) = 0
                                            THEN "set" ELSE "draw"]
    /\ UNCHANGED <<redisUp, cacheInstance, store, now, db, csv, calls, last, missLog,
                   remissed, keyLog, guard, loads, limiterVars>>

\* one np.random.normal call from the global state as it is now: the trials of
\* the next player in run_simulation, the whole matrix in run_optimized_simulation
CallDraw(t) ==
    /\ threads[t].pc = "draw"
    /\ LET me == threads[t]
           n == me.settings.num_simulations
       IN  IF me.op = "run_simulation"
           THEN LET player == me.players[me.i]
                    points == Normal(rngState, player.points_proj, player.std_dev, n)
                IN  /\ rngState' = Advance(rngState, n)
                    /\ threads' = [threads EXCEPT
                          ![t].results = @ \o <<PlayerResult(player, me.settings, points)>>,
                          ![t].i = @ + 1,
                          ![t].pc = IF me.i + 1 > Len(me.players) THEN "set" ELSE "draw"]
           ELSE /\ rngState' = Advance(rngState, Len(me.players) * n)
                /\ threads' = [threads EXCEPT
                      ![t].results = VectorizedResults(me.players, me.settings, rngState),
                      ![t].i = Len(me.players) + 1,
                      ![t].pc = "set"]
    /\ UNCHANGED <<redisUp, cacheInstance, store, now, db, csv, calls, last, missLog,
                   remissed, keyLog, guard, loads, limiterVars>>

\* the sort, the response, cache.set and the return
CallSet(t) ==
    /\ threads[t].pc = "set"
    /\ LET me == threads[t]
           response == [results |-> SortByMean(me.results, <<>>),
                        metadata |-> IF me.op = "run_simulation"
                                     THEN Metadata(me.players, me.settings, me.key)
                                     ELSE OptimizedMetadata(me.players, me.settings, me.key)]
       IN  /\ store' = CacheSet(store, me.key, response, CACHE_TTL, now, redisUp).db
           /\ threads' = [threads EXCEPT ![t].pc = "done", ![t].response = <<response>>]
    /\ UNCHANGED <<redisUp, cacheInstance, now, rngState, db, csv, calls, last, missLog,
                   remissed, keyLog, guard, loads, limiterVars>>

ThreadNext ==
    \E t \in Threads :
        \/ CallGet(t)
        \/ CallSeed(t)
        \/ CallDraw(t)
        \/ CallSet(t)

ThreadSpec == ThreadInit /\ [][ThreadNext]_vars

----------------------------------------------------------------------------
(* services.py: PlayerService.ensure_players_loaded and load_players_from_csv
   called from several threads, each with its own database session.  Every
   query, commit, attribute read or write and lock operation is one step. *)

\* data/players.csv: absent, well-formed, lacking a required column, or with a
\* row that fails validation
CsvFiles == {"missing", "valid", "no_columns", "invalid"}

\* the locals of a thread that entered ensure_players_loaded or load_players_from_csv
LoaderThread(entry, table) ==
    [pc |-> "entered", op |-> entry, lock |-> 0, before |-> table, raised |-> FALSE]

LoadInit ==
    /\ redisUp = TRUE
    /\ cacheInstance = "ok"
    /\ store = EmptyStore
    /\ now = 0
    /\ rngState = Seed(1)
    /\ db \in { <<>>, <<P3>> }
    /\ csv \in CsvFiles
    /\ calls = 0
    /\ last = NoCall
    /\ missLog = {}
    /\ remissed = FALSE
    /\ keyLog = {}
    /\ ThreadsIdle
    /\ LimiterIdle

\* ensure_players_loaded: count = db.query(Player).count(), and the test for the file
EnsureCount(t) ==
    /\ threads[t].pc = "idle"
    /\ threads' = [threads EXCEPT ![t] =
          [LoaderThread("ensure_players_loaded", db) EXCEPT
              !.pc = IF Len(db) = 0 /\ csv # "missing" THEN "hasattr" ELSE "done"]]
    /\ UNCHANGED <<redisUp, cacheInstance, store, now, rngState, db, csv, calls, last, missLog,
                   remissed, keyLog, guard, loads, limiterVars>>

\* if not hasattr(PlayerService, "_loading_lock")
EnsureHasattr(t) ==
    /\ threads[t].pc = "hasattr"
    /\ threads' = [threads EXCEPT ![t].pc = IF guard.attr = 0 THEN "make_lock" ELSE "read_lock"]
    /\ UNCHANGED <<redisUp, cacheInstance, store, now, rngState, db, csv, calls, last, missLog,
                   remissed, keyLog, guard, loads, limiterVars>>

\* PlayerService._loading_lock = threading.Lock(): a new lock object
EnsureMakeLock(t) ==
    /\ threads[t].pc = "make_lock"
    /\ guard' = [guard EXCEPT !.made = @ + 1, !.attr = guard.made + 1]
    /\ threads' = [threads EXCEPT ![t].pc = "read_lock"]
    /\ UNCHANGED <<redisUp, cacheInstance, store, now, rngState, db, csv, calls, last, missLog,
                   remissed, keyLog, loads, limiterVars>>

\* with PlayerService._loading_lock: the attribute is read
EnsureReadLock(t) ==
    /\ threads[t].pc = "read_lock"
    /\ threads' = [threads EXCEPT ![t].lock = guard.attr, ![t].pc = "enter"]
    /\ UNCHANGED <<redisUp, cacheInstance, store, now, rngState, db, csv, calls, last, missLog,
                   remissed, keyLog, guard, loads, limiterVars>>

\* with PlayerService._loading_lock: the lock that was read is acquired
EnsureEnter(t) ==
    /\ threads[t].pc = "enter"
    /\ threads[t].lock \notin guard.held
    /\ guard' = [guard EXCEPT !.held = @ \cup {threads[t].lock}]
    /\ threads' = [threads EXCEPT ![t].pc = "recheck"]
    /\ UNCHANGED <<redisUp, cacheInstance, store, now, rngState, db, csv, calls, last, missLog,
                   remissed, keyLog, loads, limiterVars>>

\* the second count, with the lock held; the load is called if it is 0
EnsureRecheck(t) ==
    /\ threads[t].pc = "recheck"
    /\ IF Len(db) = 0
       THEN /\ threads' = [threads EXCEPT ![t].pc = "load_read"]
            /\ loads' = loads \cup {[thread |-> t, lock |-> threads[t].lock]}
       ELSE /\ threads' = [threads EXCEPT ![t].pc = "release"]
            /\ UNCHANGED loads
    /\ UNCHANGED <<redisUp, cacheInstance, store, now, rngState, db, csv, calls, last, missLog,
                   remissed, keyLog, guard, limiterVars>>

\* the end of the with block, also when the load raised
EnsureRelease(t) ==
    /\ threads[t].pc = "release"
    /\ guard' = [guard EXCEPT !.held = @ \ {threads[t].lock}]
    /\ threads' = [threads EXCEPT ![t].pc = "done"]
    /\ UNCHANGED <<redisUp, cacheInstance, store, now, rngState, db, csv, calls, last, missLog,
                   remissed, keyLog, loads, limiterVars>>

\* load_players_from_csv called directly, whatever the table holds
LoadCall(t) ==
    /\ threads[t].pc = "idle"
    /\ threads' = [threads EXCEPT ![t] =
          [LoaderThread("load_players_from_csv", db) EXCEPT !.pc = "load_read"]]
    /\ UNCHANGED <<redisUp, cacheInstance, store, now, rngState, db, csv, calls, last, missLog,
                   remissed, keyLog, guard, loads, limiterVars>>

\* where a thread goes when load_players_from_csv is over
AfterLoad(me) == IF me.op = "ensure_players_loaded" THEN "release" ELSE "done"

\* pd.read_csv and the test for the required columns: both raise before the
\* table is touched
LoadRead(t) ==
    /\ threads[t].pc = "load_read"
    /\ threads' = [threads EXCEPT ![t] =
          IF csv \in {"missing", "no_columns"}
          THEN [threads[t] EXCEPT !.raised = TRUE, !.pc = AfterLoad(threads[t])]
          ELSE [threads[t] EXCEPT !.pc = "load_delete"]]
    /\ UNCHANGED <<redisUp, cacheInstance, store, now, rngState, db, csv, calls, last, missLog,
                   remissed, keyLog, guard, loads, limiterVars>>

\* db.query(Player).delete(); db.commit()
LoadDelete(t) ==
    /\ threads[t].pc = "load_delete"
    /\ db' = <<>>
    /\ threads' = [threads EXCEPT ![t].pc = "load_rows"]
    /\ UNCHANGED <<redisUp, cacheInstance, store, now, rngState, csv, calls, last, missLog,
                   remissed, keyLog, guard, loads, limiterVars>>

\* the rows are validated, then bulk_save_objects and commit.  A row that fails
\* validation raises ValueError; a database error (the connection, or a
\* player_id that is in the table again) is rolled back and raised.
LoadRows(t) ==
    /\ threads[t].pc = "load_rows"
    /\ \E dbOk \in BOOLEAN :
          IF csv = "valid" /\ dbOk /\ db = <<>>
          THEN /\ db' = CsvPlayers
               /\ threads' = [threads EXCEPT ![t].pc = AfterLoad(threads[t])]
          ELSE /\ db' = db
               /\ threads' = [threads EXCEPT ![t].raised = TRUE,
                                             ![t].pc = AfterLoad(threads[t])]
    /\ UNCHANGED <<redisUp, cacheInstance, store, now, rngState, csv, calls, last, missLog,
                   remissed, keyLog, guard, loads, limiterVars>>

LoadNext ==
    \E t \in Threads :
        \/ EnsureCount(t)
        \/ EnsureHasattr(t)
        \/ EnsureMakeLock(t)
        \/ EnsureReadLock(t)
        \/ EnsureEnter(t)
        \/ EnsureRecheck(t)
        \/ EnsureRelease(t)
        \/ LoadCall(t)
        \/ LoadRead(t)
        \/ LoadDelete(t)
        \/ LoadRows(t)

LoadSpec == LoadInit /\ [][LoadNext]_vars

----------------------------------------------------------------------------
(* security.py: RateLimitMiddleware in front of every request.  dispatch has
   no await before is_allowed returns, so one request is one step. *)

MaxClock == 5
MaxDispatches == 4

\* values of RATE_LIMIT_REQUESTS and RATE_LIMIT_WINDOW in the environment
RateLimitRequests == {0, 1, 2}
RateLimitWindows == {2, 3}

\* paths the middleware lets through without asking the limiter
ExemptPaths == {"/api/health", "/api/metrics"}

\* request.url.path of the requests of the model
RequestPaths == {"/api/health", "/api/players"}

\* the entry of a request that never reached the limiter
NoClientId == <<>>

LimiterInit ==
    /\ redisUp = TRUE /\ cacheInstance = "ok" /\ store = EmptyStore /\ now = 0
    /\ rngState = Seed(1) /\ db = <<>> /\ csv = "missing" /\ calls = 0
    /\ last = NoCall /\ missLog = {} /\ remissed = FALSE /\ keyLog = {}
    /\ ThreadsIdle
    /\ \E max_requests \in RateLimitRequests, window_seconds \in RateLimitWindows :
           rate_limiter = RateLimiter(max_requests, window_seconds)
    /\ history = <<>>

\* time.time() moves on
ClockTick ==
    /\ now < MaxClock
    /\ now' = now + 1
    /\ UNCHANGED <<redisUp, cacheInstance, store, rngState, db, csv, calls, last, missLog,
                   remissed, keyLog, threadVars, limiterVars>>

\* RateLimitMiddleware.dispatch for one request
Dispatch ==
    /\ Len(history) < MaxDispatches
    /\ \E path \in RequestPaths, client \in RequestClients :
           IF path \in ExemptPaths
           THEN /\ history' = Append(history, [path |-> path, client_id |-> NoClientId,
                                                at |-> now, status |-> 200])
                /\ UNCHANGED rate_limiter
           ELSE LET client_id == GetClientId(client)
                    call == IsAllowed(rate_limiter, client_id, now)
                IN  /\ rate_limiter' = call.limiter
                    /\ history' = Append(history,
                           [path |-> path, client_id |-> client_id, at |-> now,
                            status |-> IF call.allowed THEN 200 ELSE 429])
    /\ UNCHANGED <<redisUp, cacheInstance, store, now, rngState, db, csv, calls, last, missLog,
                   remissed, keyLog, threadVars>>

LimiterNext ==
    \/ ClockTick
    \/ Dispatch

LimiterSpec == LimiterInit /\ [][LimiterNext]_vars

----------------------------------------------------------------------------
(* Properties *)

\* the step is a call, and the call reached the engine with key last'.key
EngineStep == calls' # calls /\ last'.key # <<>>

Returned(call) == call.status \in {"returned", "http200"} /\ Len(call.response) = 1

\* C1 as stated: while an entry for the call's fingerprint is stored and has
\* not expired, the call returns a response equal to the stored one, draws no
\* trial and leaves the random state alone.
C1_HitWheneverStored ==
    [][ (EngineStep /\ Live(store, last'.key, now))
        => /\ last'.outcome = "hit"
           /\ Returned(last')
           /\ ResponseEq(last'.response[1], JsonLoads(store[last'.key].value))
           /\ last'.drawn = 0
           /\ ~last'.seeded
           /\ rngState' = rngState ]_vars

\* C1 amended: while an entry for the call's fingerprint is stored and has not
\* expired, and the cache read reaches Redis, the call returns a response equal
\* to the stored one, draws no trial and leaves the random state alone.
C1_HitWhenStoredAndReadable ==
    [][ (EngineStep /\ Live(store, last'.key, now) /\ redisUp)
        => /\ last'.outcome = "hit"
           /\ Returned(last')
           /\ ResponseEq(last'.response[1], JsonLoads(store[last'.key].value))
           /\ last'.drawn = 0
           /\ ~last'.seeded
           /\ rngState' = rngState ]_vars

\* a hit by run_simulation on a response that run_optimized_simulation stored
C1_Witness ==
    /\ last.outcome = "hit"
    /\ last.op = "run_simulation"
    /\ last.players # <<>>
    /\ "optimized" \in DOMAIN last.response[1].metadata
    /\ last.drawn = 0

\* C2: any two misses of the same engine with the same players and settings
\* computed the same results, and every miss left the random state that
\* seed 42 followed by the call's draws leaves.
C2_MissesAreDeterministic ==
    /\ \A a, b \in missLog :
          (a.op = b.op /\ a.players = b.players /\ a.settings = b.settings)
          => a.results = b.results
    /\ last.outcome = "miss" => rngState = [key |-> 42, pos |-> last.drawn]

\* some input has missed twice, another input has missed as well, and the
\* latest call is a miss that found the cache reachable and empty for its key
C2_Witness ==
    /\ remissed
    /\ last.outcome = "miss"
    /\ last.players # <<>>
    /\ \E m \in missLog : m.players # last.players /\ m.players # <<>>
    /\ last.getOk
    /\ last.setOk

\* C3: a miss whose cache write succeeded leaves, under the call's fingerprint,
\* an entry equal to the returned response that expires 300 seconds later.
C3_MissIsStored ==
    [][ (EngineStep /\ last'.outcome = "miss" /\ last'.setOk)
        => /\ Returned(last')
           /\ last'.key = generate_cache_key(last'.players, last'.settings)
           /\ Live(store', last'.key, now')
           /\ ResponseEq(JsonLoads(store'[last'.key].value), last'.response[1])
           /\ store'[last'.key].expires = now' + 300 ]_vars

C3_Witness ==
    /\ last.outcome = "miss"
    /\ last.setOk
    /\ last.players # <<>>
    /\ last.key \in DOMAIN store

OutOfRange(settings) ==
    \/ settings.num_simulations < 100
    \/ settings.num_simulations > 10000
    \/ settings.budget < 50
    \/ settings.budget > 1000

\* C4: a request that reaches the application with a configuration out of range
\* is rejected with a validation error and changes neither the cache nor the
\* random state; no miss and no cache entry ever carries such a configuration.
C4_OutOfRangeRejected ==
    [][ calls' # calls
        => /\ (last'.op # "none" /\ last'.status # "no_service" /\ OutOfRange(last'.settings))
              => /\ last'.status = "http422"
                 /\ last'.outcome = "none"
                 /\ last'.drawn = 0
                 /\ store' = store
                 /\ rngState' = rngState
                 /\ missLog' = missLog
           /\ \A m \in missLog' : ~OutOfRange(m.settings)
           /\ \A k \in DOMAIN store' : ~OutOfRange(JsonLoads(store'[k].value).metadata) ]_vars

C4_Witness ==
    /\ last.status = "http422"
    /\ last.settings.num_simulations > 10000
    /\ DOMAIN store # {}

\* C5 as stated: a miss whose cache write failed still returns the freshly
\* computed response, and afterwards no entry exists for the fingerprint.
C5_FailedWriteLeavesNoEntry ==
    [][ (EngineStep /\ last'.outcome = "miss" /\ ~last'.setOk)
        => /\ Returned(last')
           /\ \E m \in missLog' :
                  /\ m.op = last'.op
                  /\ m.key = last'.key
                  /\ m.results = last'.response[1].results
           /\ ~Live(store', last'.key, now') ]_vars

\* C5 amended: a miss whose cache write failed still returns the freshly
\* computed response, and the cache is left as it was before the call: nothing
\* is written for the fingerprint, and an entry already there stays.
C5_FailedWriteLeavesCacheAlone ==
    [][ (EngineStep /\ last'.outcome = "miss" /\ ~last'.setOk)
        => /\ Returned(last')
           /\ \E m \in missLog' :
                  /\ m.op = last'.op
                  /\ m.key = last'.key
                  /\ m.results = last'.response[1].results
           /\ last'.response[1].metadata.cache_key = last'.key
           /\ store' = store ]_vars

C5_Witness ==
    /\ last.outcome = "miss"
    /\ ~last.setOk
    /\ last.players # <<>>
    /\ Returned(last)

\* C6: a valid request over available players that finds the cache unreachable
\* is still answered with a freshly computed response.
C6_CacheOutageNeverFailsRequest ==
    (/\ last.op # "none"
     /\ ~OutOfRange(last.settings)
     /\ last.status \notin {"http400", "http500_load"}
     /\ ~last.getOk)
    => (last.outcome = "miss" /\ Returned(last))

\* C7: a call over an empty player sequence that passed validation returns a
\* response with no results and num_players 0.
C7_EmptyInputIsNotAnError ==
    (/\ last.op # "none"
     /\ last.players = <<>>
     /\ last.status \notin {"http422", "http500_load", "no_service"})
    => /\ Returned(last)
       /\ last.response[1].results = <<>>
       /\ last.response[1].metadata.num_players = 0

\* Python == on two adp_overrides values: both None, or dicts with the same items
DictEq(o1, o2) ==
    /\ o1.isNone = o2.isNone
    /\ {o1.items[i] : i \in 1..Len(o1.items)} = {o2.items[i] : i \in 1..Len(o2.items)}

\* Python == on two (players, settings) argument pairs
SameArguments(a, b) ==
    /\ a.players = b.players
    /\ a.settings.budget = b.settings.budget
    /\ a.settings.num_simulations = b.settings.num_simulations
    /\ a.settings.scoring_format = b.settings.scoring_format
    /\ DictEq(a.settings.adp_overrides, b.settings.adp_overrides)

\* b is a with the adp_cost of exactly one player changed
OneCostChanged(a, b) ==
    /\ a.settings = b.settings
    /\ Len(a.players) = Len(b.players)
    /\ \E i \in 1..Len(a.players) :
          /\ a.players[i].adp_cost # b.players[i].adp_cost
          /\ b.players = [a.players EXCEPT ![i].adp_cost = b.players[i].adp_cost]

\* C8: equal arguments in the same order give the same fingerprint, and
\* changing the adp_cost of one player changes it.
C8_KeyIsStableAndCostSensitive ==
    \A a, b \in keyLog :
        /\ SameArguments(a, b) => a.key = b.key
        /\ OneCostChanged(a, b) => a.key # b.key

\* two keys computed for two-player lists that differ in one cost
C8_Witness ==
    \E a, b \in keyLog :
        /\ OneCostChanged(a, b)
        /\ Len(a.players) = 2
        /\ ~a.settings.adp_overrides.isNone

Range(f) == {f[i] : i \in DOMAIN f}

\* q holds the players of p in another order
IsReordering(p, q) ==
    /\ p # q
    /\ Len(p) = Len(q)
    /\ \A x \in Range(p) \cup Range(q) :
          Cardinality({i \in DOMAIN p : p[i] = x}) = Cardinality({i \in DOMAIN q : q[i] = x})

\* the fingerprints the engines have computed: those of the misses and of the latest call
ObservedKeys ==
    {[players |-> m.players, settings |-> m.settings, key |-> m.key] : m \in missLog}
    \cup (IF last.key # <<>>
          THEN {[players |-> last.players, settings |-> last.settings, key |-> last.key]}
          ELSE {})

\* C9: the same players in another order, under the same settings, have another
\* fingerprint, and every hit returns results that a miss on the very same
\* player order and settings computed.
C9_OrderingsAreCacheDistinct ==
    /\ \A a, b \in ObservedKeys :
          (IsReordering(a.players, b.players) /\ a.settings = b.settings) => a.key # b.key
    /\ last.outcome = "hit"
          => \E m \in missLog :
                /\ m.players = last.players
                /\ m.settings = last.settings
                /\ m.results = last.response[1].results

\* a hit on <<P2, P1>> while a response for <<P1, P2>> is in the cache
C9_Witness ==
    /\ last.outcome = "hit"
    /\ last.players = <<P2, P1>>
    /\ \E m \in missLog :
          /\ m.players = <<P1, P2>>
          /\ m.settings = last.settings
          /\ Live(store, m.key, now)

\* settings t is settings s plus an override for a player of the list that s
\* does not override
AddsOverride(players, s, t) ==
    /\ s.budget = t.budget
    /\ s.num_simulations = t.num_simulations
    /\ s.scoring_format = t.scoring_format
    /\ ~t.adp_overrides.isNone
    /\ \E k \in 1..Len(t.adp_overrides.items), i \in 1..Len(players) :
          /\ t.adp_overrides.items[k][1] = players[i].player_id
          /\ \A j \in 1..Len(s.adp_overrides.items) :
                s.adp_overrides.items[j][1] # players[i].player_id
          /\ {s.adp_overrides.items[j] : j \in 1..Len(s.adp_overrides.items)}
               = {t.adp_overrides.items[j] : j \in 1..Len(t.adp_overrides.items)}
                    \ {t.adp_overrides.items[k]}

\* C10: adding an override for a player changes the fingerprint, and a miss of
\* an engine with the override computes the same results as its miss without.
C10_OverrideChangesKeyNotResults ==
    \A a, b \in missLog :
        (a.players = b.players /\ AddsOverride(a.players, a.settings, b.settings))
        => /\ a.key # b.key
           /\ a.op = b.op => a.results = b.results

\* misses of one engine on <<P1, P2>> without and with an override for p1
C10_Witness ==
    \E a, b \in missLog :
        /\ a.op = b.op
        /\ a.players = <<P1, P2>>
        /\ b.players = <<P1, P2>>
        /\ AddsOverride(a.players, a.settings, b.settings)
        /\ a.results # <<>>

\* the position of the player with this id in the input list
InputIndex(players, id) == CHOOSE i \in 1..Len(players) : players[i].player_id = id

\* C11: the results of every miss are in descending order of reported mean,
\* and results of equal mean are in the order of their players in the input.
C11_SortedByMeanStable ==
    \A m \in missLog :
        \A j, k \in 1..Len(m.results) :
            j < k => \/ m.results[j].mean > m.results[k].mean
                     \/ /\ m.results[j].mean = m.results[k].mean
                        /\ InputIndex(m.players, m.results[j].player_id)
                              < InputIndex(m.players, m.results[k].player_id)

\* a miss on three players that had to be reordered and has two equal means
C11_Witness ==
    \E m \in missLog :
        /\ Len(m.results) = 3
        /\ \E j, k \in 1..3 : j < k /\ m.results[j].mean = m.results[k].mean
        /\ \E i \in 1..3 : m.results[i].player_id # m.players[i].player_id
        /\ m.results[1].mean > m.results[3].mean

\* the result a miss reports for the player with this id
ResultOf(m, id) ==
    m.results[CHOOSE j \in 1..Len(m.results) : m.results[j].player_id = id]

CountAbove(points, value) == Cardinality({t \in 1..Len(points) : points[t] > value})
CountBelow(points, value) == Cardinality({t \in 1..Len(points) : points[t] < value})

\* pct is 100 * count / n rounded to one decimal place (pct is in tenths)
IsPctOf(pct, count, n) ==
    /\ 2 * (pct * n - 1000 * count) <= n
    /\ 2 * (1000 * count - pct * n) <= n

\* C13: on a miss, each player's boom_pct is the share of its trials strictly
\* above projection + variability and its bust_pct the share strictly below
\* projection - variability, in percent rounded to one decimal place.
C13_BoomBustCountStrictlyBeyondOwnThresholds ==
    \A m \in missLog :
        \A i \in 1..Len(m.players) :
            LET player == m.players[i]
                points == Trials(m.players, m.settings, i)
                n == m.settings.num_simulations
                r == ResultOf(m, player.player_id)
            IN  /\ Len(points) = n
                /\ IsPctOf(r.boom_pct, CountAbove(points, player.points_proj + player.std_dev), n)
                /\ IsPctOf(r.bust_pct, CountBelow(points, player.points_proj - player.std_dev), n)

\* a miss with 101 trials of a player with variability: some trials lie on
\* each threshold, the percentages need rounding, and thresholds taken from
\* the sampled mean and std would count other trials
C13_Witness ==
    \E m \in missLog :
        \E i \in 1..Len(m.players) :
            LET player == m.players[i]
                points == Trials(m.players, m.settings, i)
                r == ResultOf(m, player.player_id)
                boom == player.points_proj + player.std_dev
                bust == player.points_proj - player.std_dev
            IN  /\ m.settings.num_simulations = 101
                /\ player.std_dev > 0
                /\ \E t \in 1..101 : points[t] = boom
                /\ \E t \in 1..101 : points[t] = bust
                /\ (1000 * CountAbove(points, boom)) % 101 # 0
                /\ r.boom_pct > 0
                /\ r.bust_pct > 0
                /\ CountAbove(points, r.mean + r.std) # CountAbove(points, boom)
                /\ CountBelow(points, r.mean - r.std) # CountBelow(points, bust)

\* C14: the metadata of every response assembled on a miss holds the trial
\* count, the player count, the scoring format, the budget, the fingerprint and
\* a flag that tells which engine computed the response.
C14_MetadataCarriesStrategyFlag ==
    (last.outcome = "miss" /\ Returned(last))
    => LET metadata == last.response[1].metadata
       IN  /\ {"num_simulations", "num_players", "scoring_format", "budget", "cache_key",
                "optimized"} \subseteq DOMAIN metadata
           /\ metadata.num_simulations = last.settings.num_simulations
           /\ metadata.num_players = Len(last.players)
           /\ StrEq(metadata.scoring_format, last.settings.scoring_format)
           /\ metadata.budget = last.settings.budget
           /\ metadata.cache_key = last.key
           /\ metadata.optimized = (last.op = "run_optimized_simulation")

\* C15: a thread whose call missed the cache returns the results the call
\* computes when it runs alone, whatever the other threads do meanwhile; so two
\* misses with the same fingerprint return the same results.
C15_ConcurrentMissesAreIndependent ==
    /\ \A t \in Threads :
          (threads[t].pc = "done" /\ threads[t].outcome = "miss")
          => threads[t].response[1].results
               = FreshResponse(threads[t].op, threads[t].players, threads[t].settings,
                               threads[t].key, Seed(SEED)).results
    /\ \A t, u \in Threads :
          (/\ threads[t].pc = "done" /\ threads[t].outcome = "miss"
           /\ threads[u].pc = "done" /\ threads[u].outcome = "miss"
           /\ threads[t].key = threads[u].key)
          => threads[t].response[1].results = threads[u].response[1].results

\* C16: when load_players_from_csv is only reached through
\* ensure_players_loaded, it is started at most once, and every start holds the
\* one lock all callers share.
C16_LoadedAtMostOnceUnderOneGuard ==
    (\A t \in Threads : threads[t].op # "load_players_from_csv")
    => /\ Cardinality(loads) <= 1
       /\ \A l \in loads : l.lock # 0
       /\ \A a, b \in loads : a.lock = b.lock

\* C20: when a load_players_from_csv call that ran with no other call under
\* way has raised, the table holds what it held before the call.
C20_FailedLoadLeavesTableAlone ==
    \A t \in Threads :
        (/\ threads[t].op = "load_players_from_csv"
         /\ threads[t].pc = "done"
         /\ threads[t].raised
         /\ \A u \in Threads \ {t} : threads[u].pc = "idle")
        => db = threads[t].before

\* C17: a miss of run_simulation and a miss of run_optimized_simulation on the
\* same players and settings report the same results in the same order.
C17_StrategiesAgree ==
    \A a, b \in missLog :
        (a.players = b.players /\ a.settings = b.settings) => a.results = b.results

\* both engines have missed on the same two players with variability
C17_Witness ==
    \E a, b \in missLog :
        /\ a.op = "run_simulation"
        /\ b.op = "run_optimized_simulation"
        /\ a.players = b.players
        /\ a.settings = b.settings
        /\ Len(a.players) = 2
        /\ \A i \in 1..2 : a.players[i].std_dev > 0
        /\ a.results[1].mean # a.results[2].mean

\* the response carries the flag of the vectorized engine
Optimized(response) ==
    "optimized" \in DOMAIN response.metadata /\ response.metadata.optimized = TRUE

\* C18 as stated: a response returned by run_optimized_simulation carries
\* optimized = true, and a response returned by run_simulation does not.
C18_FlagIdentifiesCalledFunction ==
    (last.op \in Engines /\ Returned(last))
    => (Optimized(last.response[1]) <=> last.op = "run_optimized_simulation")

\* C18 amended: the flag identifies the function that computed the response.
\* On a miss that is the function called, and what it stores carries the same
\* flag; on a hit the response carries the flag of the stored entry, whichever
\* function is called.
C18_FlagIdentifiesComputingFunction ==
    [][ (EngineStep /\ Returned(last'))
        => /\ last'.outcome = "miss"
                => /\ Optimized(last'.response[1]) <=> last'.op = "run_optimized_simulation"
                   /\ last'.setOk
                        => (Optimized(JsonLoads(store'[last'.key].value))
                              <=> last'.op = "run_optimized_simulation")
           /\ last'.outcome = "hit"
                => (Optimized(last'.response[1])
                      <=> Optimized(JsonLoads(store[last'.key].value))) ]_vars

\* run_optimized_simulation has returned, from the cache, a response that
\* run_simulation computed
C18_Witness ==
    /\ last.outcome = "hit"
    /\ last.op = "run_optimized_simulation"
    /\ last.players # <<>>
    /\ ~Optimized(last.response[1])
    /\ \E m \in missLog : m.op = "run_simulation" /\ m.key = last.key

\* C19: the results of every miss have exactly one entry for each input player,
\* with that player's id and name, and no other entry; num_players is the
\* number of input players and the number of results.
C19_ResultsArePermutationOfPlayers ==
    /\ \A m \in missLog :
          /\ Len(m.results) = Len(m.players)
          /\ \A i \in 1..Len(m.players) :
                Cardinality({j \in 1..Len(m.results) :
                                /\ m.results[j].player_id = m.players[i].player_id
                                /\ m.results[j].name = m.players[i].name}) = 1
          /\ \A j \in 1..Len(m.results) :
                \E i \in 1..Len(m.players) :
                    m.results[j].player_id = m.players[i].player_id
    /\ (last.outcome = "miss" /\ Returned(last))
          => /\ last.response[1].metadata.num_players = Len(last.players)
             /\ last.response[1].metadata.num_players = Len(last.response[1].results)

\* a miss on three players, two of them with the same mean, returned in
\* another order than given
C19_Witness ==
    /\ last.outcome = "miss"
    /\ Returned(last)
    /\ Len(last.players) = 3
    /\ last.response[1].metadata.num_players = 3
    /\ last.response[1].results[1].player_id # last.players[1].player_id
    /\ last.response[1].results[2].mean = last.response[1].results[3].mean


\* the request at position i of the history went through the limiter
Limited(i) == history[i].path \notin ExemptPaths

\* is_allowed returned true for the request at position i
AllowedAt(i) == Limited(i) /\ history[i].status = 200

\* the client ids the limiter has been asked about
ClientIds == {history[i].client_id : i \in {j \in DOMAIN history : Limited(j)}}

\* the positions before k of client k's earlier calls that fall in the window
\* that ends at call k
InWindowBefore(k) ==
    {i \in 1..(k - 1) :
        /\ Limited(i)
        /\ history[i].client_id = history[k].client_id
        /\ history[i].at >= history[k].at - rate_limiter.window_seconds}

\* the timestamps of the calls of id that returned true, in call order
AllowedTimes(id) ==
    LET own == SelectSeq(history, LAMBDA e : e.path \notin ExemptPaths /\ e.client_id = id
                                             /\ e.status = 200)
    IN  [i \in 1..Len(own) |-> own[i].at]

\* the time of the latest call of id
LatestCall(id) ==
    LET own == SelectSeq(history, LAMBDA e : e.path \notin ExemptPaths /\ e.client_id = id)
    IN  own[Len(own)].at

\* C21: for every client id and calls with non-decreasing timestamps, at most
\* max_requests calls return true within any time span of window_seconds (both
\* ends included); a refused call is not recorded: the deque of a client holds
\* exactly the timestamps of its allowed calls that are inside the window of its
\* latest call, and a call is refused exactly when max_requests allowed calls of
\* the client lie in the window that ends at it, wherever its refused calls lie.
C21_WindowHoldsAtMostMaxAndRefusalsAreNotRecorded ==
    /\ \A id \in ClientIds, from \in 0..MaxClock :
           Cardinality({i \in DOMAIN history :
                           /\ AllowedAt(i)
                           /\ history[i].client_id = id
                           /\ from <= history[i].at
                           /\ history[i].at <= from + rate_limiter.window_seconds})
               <= rate_limiter.max_requests
    /\ DOMAIN rate_limiter.clients = ClientIds
    /\ \A id \in ClientIds :
           rate_limiter.clients[id] =
               SelectSeq(AllowedTimes(id),
                         LAMBDA at : at >= LatestCall(id) - rate_limiter.window_seconds)
    /\ \A k \in DOMAIN history :
           Limited(k) =>
               (AllowedAt(k) <=>
                   Cardinality({i \in InWindowBefore(k) : AllowedAt(i)})
                       < rate_limiter.max_requests)

\* a client was refused and then allowed again at a time when the calls in the
\* window, refused ones counted, reach max_requests: the refusals did not count
C21_Witness ==
    \E k \in DOMAIN history :
        /\ AllowedAt(k)
        /\ \E j \in InWindowBefore(k) : ~AllowedAt(j)
        /\ Cardinality(InWindowBefore(k)) >= rate_limiter.max_requests
        /\ \E i \in 1..(k - 1) : AllowedAt(i) /\ history[i].client_id = history[k].client_id

====
